---- MODULE Spec2Model ----
(***************************************************************************)
(* Session state machine of the Music Visionary browser application        *)
(* (src/App.tsx): startListening, the recorder callbacks, the two timers   *)
(* and processAudio, together with the controls the render function        *)
(* exposes in each state.                                                  *)
(*                                                                         *)
(* Every invocation of startListening creates one "session": the closure   *)
(* that owns audioStream, mediaRecorder, the countdown interval and the    *)
(* fixed-duration timeout.  The React state `state`, `stream` and the two  *)
(* refs are shared by all sessions.                                        *)
(***************************************************************************)
EXTENDS Integers, Sequences, FiniteSets, TLC

\* ---------------------------------------------------------------- bounds
\* Number of startListening invocations that reach getUserMedia in one run.
MaxSessions == 2

\* ------------------------------------------------------ program constants
RECORDING_DURATION == 8000

\* RECORDING_DURATION / 1000: the initial countdown.
DurationSeconds == RECORDING_DURATION \div 1000

Null == "null"

\* Values analyzeAudio can return (opaque MusicAnalysis records) and the
\* visualPrompt field of each.
Analyses == {"A1", "A2"}

visualPrompt(analysis) ==
    IF analysis = "A1" THEN "P1" ELSE "P2"

\* Image references generateVisual can return.
Images == {"data:image/png;base64,I1"}

\* Messages carried by the errors caught in startListening.  "" is an error
\* object without a message.
UnsupportedMessage == "Je browser ondersteunt geen audio-opnames. Gebruik een moderne browser."
DefaultMicMessage == "Microfoon toegang geweigerd."
ProcessMessage == "Geen match gevonden. Probeer het nummer iets dichter bij de microfoon te houden."
HostErrorMessages == {"", "Permission denied"}

VARIABLES
    state,             \* useState<VisionaryState>
    stream,            \* useState<MediaStream|null>: 0 or the owning session
    mediaRecorderRef,  \* useRef<MediaRecorder|null>: 0 or the owning session
    chunksRef,         \* useRef<Blob[]>: the sessions whose data was buffered
    sessions,          \* one record per startListening closure
    mounted,           \* the App component is mounted
    mediaSupported,    \* navigator.mediaDevices.getUserMedia exists
    invocations,       \* history: parity of the startListening invocations
    call,              \* one call of a geminiService function: its input,
                       \*   and its outcome once it has completed
    visualizer         \* the Visualizer component: props, refs, effect

vars == <<state, stream, mediaRecorderRef, chunksRef, sessions, mounted,
          mediaSupported, invocations, call, visualizer>>

\* ----------------------------------------------------------------- state
InitialState ==
    [isRecording |-> FALSE, isAnalyzing |-> FALSE, error |-> Null,
     result |-> Null, imageUrl |-> Null, countdown |-> 0]

\* A setState call: React drops updates of an unmounted component.
SetState(new) == IF mounted THEN new ELSE state

SetStream(new) == IF mounted THEN new ELSE stream

SessionIds == 1..Len(sessions)

\* The closure of one startListening invocation.
NewSession(origin) ==
    [pc        |-> "getUserMedia", \* getUserMedia | running | failed
     origin    |-> origin,         \* history: the kind of state it was invoked
                                   \*   from (kept while getUserMedia is pending)
     tracks    |-> "none",         \* audioStream: none | live | stopped
     recorder  |-> "none",         \* mediaRecorder.state: none|inactive|recording
     stopEvent |-> FALSE,          \* a stop event is queued for onstop
     reader    |-> FALSE,          \* FileReader.readAsDataURL is pending
     proc      |-> "none",         \* processAudio: none | analyze | visual |
                                   \*   done | analyzeFailed | visualFailed
     analysis  |-> Null,           \* local `analysis` of processAudio
     visualArg |-> Null,           \* argument of the pending generateVisual
     analyzeCalls |-> 0,           \* history: invocations of analyzeAudio
     visualCalls  |-> 0,           \* history: invocations of generateVisual
     timer     |-> FALSE,          \* the setInterval is scheduled
     timeout   |-> FALSE]          \* the setTimeout is scheduled

\* ------------------------------------------------------ rendered controls
\* App.tsx:146 the start screen with "NU STARTEN".
StartButtonRendered ==
    state.result = Null /\ ~state.isAnalyzing /\ ~state.isRecording

\* App.tsx:200 the error panel with "PROBEER OPNIEUW".
ErrorRetryRendered == state.error \notin {Null, ""}

\* App.tsx:218 the result panel with its retry button (App.tsx:275).
ResultRetryRendered == state.result /= Null /\ state.imageUrl /= Null

CanInvokeStartListening ==
    mounted /\ (StartButtonRendered \/ ErrorRetryRendered \/ ResultRetryRendered)

\* Variant of RecordingState that forgets to clear the previous result.
RecordingState_KeepsResult(prev) ==
    [prev EXCEPT !.error = Null, !.imageUrl = Null,
                 !.isRecording = TRUE, !.countdown = DurationSeconds]

\* The state written by the first setState of startListening.
RecordingState(prev) ==
    [prev EXCEPT !.error = Null, !.result = Null, !.imageUrl = Null,
                 !.isRecording = TRUE, !.countdown = DurationSeconds]

\* The four kinds of session state of the specification (section 3).
IsSettled(st) ==
    /\ ~st.isRecording /\ ~st.isAnalyzing
    /\ (st.error /= Null \/ (st.result /= Null /\ st.imageUrl /= Null))

IsIdle(st) ==
    ~st.isRecording /\ ~st.isAnalyzing /\ st.error = Null
    /\ ~(st.result /= Null /\ st.imageUrl /= Null)

Origin(st) ==
    IF IsIdle(st) THEN "idle" ELSE IF IsSettled(st) THEN "settled" ELSE "busy"

\* The state written by the catch block of startListening.
MicErrorState(prev, message) ==
    [prev EXCEPT !.error = IF message = "" THEN DefaultMicMessage ELSE message,
                 !.isRecording = FALSE]

\* Variant of ProcessErrorState that leaves isAnalyzing as it is.
ProcessErrorState_KeepsAnalyzing(prev) ==
    [prev EXCEPT !.error = ProcessMessage]

\* The state written by the catch block of processAudio.
ProcessErrorState(prev) ==
    [prev EXCEPT !.error = ProcessMessage, !.isAnalyzing = FALSE]

\* The session machine treats the geminiService functions as opaque calls.
NoCall == [fn |-> "none", status |-> "none"]

\* The Visualizer before its first render.
NoVisualizer ==
    [rendered     |-> FALSE,  \* the component is mounted
     isActive     |-> FALSE,  \* prop isActive
     stream       |-> 0,      \* prop stream: 0 (null) or a stream
     effectDue    |-> FALSE,  \* the effect is to run for changed deps
     cleanup      |-> FALSE,  \* the last effect returned its cleanup
     animationRef |-> 0,      \* animationRef.current: 0 or a request id
     audioCtxRef  |-> 0,      \* audioCtxRef.current: 0 or a context
     created      |-> 0,      \* AudioContexts constructed so far
     live         |-> {},     \* AudioContexts not closed
     requested    |-> 0,      \* animation frames requested so far
     frames       |-> {},     \* requests neither run nor canceled
     context2d    |-> TRUE]   \* canvas.getContext('2d') gives a context

\* ------------------------------------------------------------------ Init
Init ==
    /\ state = InitialState
    /\ stream = 0
    /\ mediaRecorderRef = 0
    /\ chunksRef = <<>>
    /\ sessions = <<>>
    /\ mounted = TRUE
    /\ mediaSupported \in BOOLEAN
    /\ invocations = 0
    /\ call = NoCall
    /\ visualizer = NoVisualizer

\* --------------------------------------------------------- startListening
\* A click on one of the rendered controls on a host without
\* mediaDevices.getUserMedia: the throw precedes every setState.
StartListeningUnsupported ==
    /\ CanInvokeStartListening
    /\ ~mediaSupported
    /\ state' = SetState(MicErrorState(state, UnsupportedMessage))
    /\ invocations' = 1 - invocations
    /\ UNCHANGED <<stream, mediaRecorderRef, chunksRef, sessions, mounted,
                   mediaSupported, call, visualizer>>

\* A click on one of the rendered controls: the synchronous part of
\* startListening up to `await getUserMedia`.
StartListening ==
    /\ CanInvokeStartListening
    /\ mediaSupported
    /\ Len(sessions) < MaxSessions
    /\ state' = SetState(RecordingState(state))
    /\ sessions' = Append(sessions, NewSession(Origin(state)))
    /\ invocations' = 1 - invocations
    /\ UNCHANGED <<stream, mediaRecorderRef, chunksRef, mounted,
                   mediaSupported, call, visualizer>>

\* getUserMedia rejects (permission denied, no device): the catch block.
GetUserMediaRejects(s, message) ==
    /\ sessions[s].pc = "getUserMedia"
    /\ state' = SetState(MicErrorState(state, message))
    /\ sessions' = [sessions EXCEPT ![s].pc = "failed", ![s].origin = "past"]
    /\ UNCHANGED <<stream, mediaRecorderRef, chunksRef, mounted,
                   mediaSupported, invocations, call,
                   visualizer>>

\* getUserMedia resolves and the rest of the try block runs to its end:
\* the recorder is created and started, both timers are scheduled.
GetUserMediaResolves(s) ==
    /\ sessions[s].pc = "getUserMedia"
    /\ stream' = SetStream(s)
    /\ mediaRecorderRef' = s
    /\ chunksRef' = <<>>
    /\ sessions' = [sessions EXCEPT ![s].pc = "running",
                                    ![s].origin = "past",
                                    ![s].tracks = "live",
                                    ![s].recorder = "recording",
                                    ![s].timer = TRUE,
                                    ![s].timeout = TRUE]
    /\ UNCHANGED <<state, mounted, mediaSupported, invocations, call,
                   visualizer>>

\* getUserMedia resolves, then MediaRecorder.isTypeSupported or the
\* MediaRecorder constructor throws (at = "constructor"), or
\* mediaRecorder.start() throws (at = "start"): the catch block runs with
\* the stream already acquired.
RecorderSetupThrows(s, at, message) ==
    /\ sessions[s].pc = "getUserMedia"
    /\ stream' = SetStream(s)
    /\ IF at = "start"
       THEN /\ mediaRecorderRef' = s
            /\ chunksRef' = <<>>
       ELSE UNCHANGED <<mediaRecorderRef, chunksRef>>
    /\ sessions' = [sessions EXCEPT ![s].pc = "failed",
                                    ![s].origin = "past",
                                    ![s].tracks = "live",
                                    ![s].recorder =
                                        IF at = "start" THEN "inactive" ELSE "none"]
    /\ state' = SetState(MicErrorState(state, message))
    /\ UNCHANGED <<mounted, mediaSupported, invocations, call,
                   visualizer>>

\* ----------------------------------------------------------------- timers
\* Variant of IntervalTick whose updater tests `prev.countdown <= 0`: the
\* tick at 1 lowers the countdown without clearing the interval.
IntervalTick_ClearsAtZero(s) ==
    /\ sessions[s].timer
    /\ \E updaterRuns \in BOOLEAN :
         /\ mounted => updaterRuns
         /\ sessions' = [sessions EXCEPT
                ![s].timer = ~(updaterRuns /\ state.countdown <= 0)]
    /\ state' = SetState(IF state.countdown <= 0
                         THEN [state EXCEPT !.countdown = 0]
                         ELSE [state EXCEPT !.countdown = state.countdown - 1])
    /\ UNCHANGED <<stream, mediaRecorderRef, chunksRef, mounted,
                   mediaSupported, invocations, call,
                   visualizer>>

\* The setInterval callback of session s runs: the updater lowers the
\* shared countdown and clears the interval when it is at most 1.  On an
\* unmounted component React may or may not run the updater.
IntervalTick(s) ==
    /\ sessions[s].timer
    /\ \E updaterRuns \in BOOLEAN :
         /\ mounted => updaterRuns
         /\ sessions' = [sessions EXCEPT
                ![s].timer = ~(updaterRuns /\ state.countdown <= 1)]
    /\ state' = SetState(IF state.countdown <= 1
                         THEN [state EXCEPT !.countdown = 0]
                         ELSE [state EXCEPT !.countdown = state.countdown - 1])
    /\ UNCHANGED <<stream, mediaRecorderRef, chunksRef, mounted,
                   mediaSupported, invocations, call,
                   visualizer>>

\* Variant of CaptureTimeout that calls stop() without testing that the
\* recorder is still recording, so that a second stop event is delivered.
CaptureTimeout_StopsWithoutTest(s) ==
    LET r == mediaRecorderRef IN
    /\ sessions[s].timeout
    /\ sessions' = [i \in SessionIds |->
           LET a == IF i = s THEN [sessions[i] EXCEPT !.timeout = FALSE]
                    ELSE sessions[i]
           IN  IF i = r
               THEN [a EXCEPT !.recorder = "inactive", !.stopEvent = TRUE]
               ELSE a]
    /\ state' = SetState([state EXCEPT !.isRecording = FALSE, !.isAnalyzing = TRUE])
    /\ UNCHANGED <<stream, mediaRecorderRef, chunksRef, mounted,
                   mediaSupported, invocations, call,
                   visualizer>>

\* The setTimeout of session s fires after RECORDING_DURATION: it stops the
\* recorder mediaRecorderRef points at when that one is recording (the stop
\* event is queued), and flips the flags.  Timers only guarantee a minimum
\* delay (interval callbacks are throttled and coalesced by the host), so
\* any number of interval callbacks may have run before it.
CaptureTimeout(s) ==
    LET r == mediaRecorderRef IN
    /\ sessions[s].timeout
    /\ sessions' = [i \in SessionIds |->
           LET a == IF i = s THEN [sessions[i] EXCEPT !.timeout = FALSE]
                    ELSE sessions[i]
           IN  IF i = r /\ a.recorder = "recording"
               THEN [a EXCEPT !.recorder = "inactive", !.stopEvent = TRUE]
               ELSE a]
    /\ state' = SetState([state EXCEPT !.isRecording = FALSE, !.isAnalyzing = TRUE])
    /\ UNCHANGED <<stream, mediaRecorderRef, chunksRef, mounted,
                   mediaSupported, invocations, call,
                   visualizer>>

\* --------------------------------------------------------------- recorder
\* The host ends the tracks of the stream (device unplugged, permission
\* revoked): the recorder goes inactive by itself and its stop event is
\* queued, whatever the timers do.
HostStopsRecorder(s) ==
    /\ sessions[s].recorder = "recording"
    /\ sessions' = [sessions EXCEPT ![s].recorder = "inactive",
                                    ![s].stopEvent = TRUE,
                                    ![s].tracks = "stopped"]
    /\ UNCHANGED <<state, stream, mediaRecorderRef, chunksRef, mounted,
                   mediaSupported, invocations, call,
                   visualizer>>

\* The last dataavailable event followed by mediaRecorder.onstop of session
\* s: the data is buffered when not empty, the blob is handed to a
\* FileReader, the tracks are stopped and the stream state is cleared.
OnStop(s) ==
    /\ sessions[s].stopEvent
    /\ \E size \in {0, 1} :
         chunksRef' = IF size > 0 THEN Append(chunksRef, s) ELSE chunksRef
    /\ sessions' = [sessions EXCEPT ![s].stopEvent = FALSE,
                                    ![s].reader = TRUE,
                                    ![s].tracks = "stopped"]
    /\ stream' = SetStream(0)
    /\ UNCHANGED <<state, mediaRecorderRef, mounted, mediaSupported,
                   invocations, call,
                   visualizer>>

\* reader.onloadend: processAudio is called and runs up to
\* `await analyzeAudio`.
ReaderLoadEnd(s) ==
    /\ sessions[s].reader
    /\ sessions' = [sessions EXCEPT ![s].reader = FALSE,
                                    ![s].proc = "analyze",
                                    ![s].analyzeCalls = @ + 1]
    /\ UNCHANGED <<state, stream, mediaRecorderRef, chunksRef, mounted,
                   mediaSupported, invocations, call,
                   visualizer>>

\* ----------------------------------------------------------- processAudio
\* Variant of AnalyzeResolves that takes the prompt from the `state` captured
\* by the closure instead of from the returned analysis.
AnalyzeResolves_StalePrompt(s, analysis) ==
    /\ sessions[s].proc = "analyze"
    /\ state' = SetState([state EXCEPT !.result = analysis])
    /\ sessions' = [sessions EXCEPT ![s].proc = "visual",
                                    ![s].analysis = analysis,
                                    ![s].visualArg = visualPrompt(state.result),
                                    ![s].visualCalls = @ + 1]
    /\ UNCHANGED <<stream, mediaRecorderRef, chunksRef, mounted,
                   mediaSupported, invocations, call,
                   visualizer>>

\* analyzeAudio resolves with `analysis`: the result is published and
\* generateVisual is called with its visualPrompt.
AnalyzeResolves(s, analysis) ==
    /\ sessions[s].proc = "analyze"
    /\ state' = SetState([state EXCEPT !.result = analysis])
    /\ sessions' = [sessions EXCEPT ![s].proc = "visual",
                                    ![s].analysis = analysis,
                                    ![s].visualArg = visualPrompt(analysis),
                                    ![s].visualCalls = @ + 1]
    /\ UNCHANGED <<stream, mediaRecorderRef, chunksRef, mounted,
                   mediaSupported, invocations, call,
                   visualizer>>

\* analyzeAudio rejects: the catch block of processAudio.
AnalyzeRejects(s) ==
    /\ sessions[s].proc = "analyze"
    /\ state' = SetState(ProcessErrorState(state))
    /\ sessions' = [sessions EXCEPT ![s].proc = "analyzeFailed"]
    /\ UNCHANGED <<stream, mediaRecorderRef, chunksRef, mounted,
                   mediaSupported, invocations, call,
                   visualizer>>

\* generateVisual resolves with an image reference.
VisualResolves(s, image) ==
    /\ sessions[s].proc = "visual"
    /\ state' = SetState([state EXCEPT !.imageUrl = image, !.isAnalyzing = FALSE])
    /\ sessions' = [sessions EXCEPT ![s].proc = "done",
                                    ![s].analysis = Null,
                                    ![s].visualArg = Null]
    /\ UNCHANGED <<stream, mediaRecorderRef, chunksRef, mounted,
                   mediaSupported, invocations, call,
                   visualizer>>

\* generateVisual rejects: the catch block of processAudio.
VisualRejects(s) ==
    /\ sessions[s].proc = "visual"
    /\ state' = SetState(ProcessErrorState(state))
    /\ sessions' = [sessions EXCEPT ![s].proc = "visualFailed",
                                    ![s].analysis = Null,
                                    ![s].visualArg = Null]
    /\ UNCHANGED <<stream, mediaRecorderRef, chunksRef, mounted,
                   mediaSupported, invocations, call,
                   visualizer>>

\* ---------------------------------------------------------------- unmount
\* The root is torn down.  App registers no effect cleanup, so nothing of
\* the sessions is touched.
Unmount ==
    /\ mounted
    /\ mounted' = FALSE
    /\ UNCHANGED <<state, stream, mediaRecorderRef, chunksRef, sessions,
                   mediaSupported, invocations, call,
                   visualizer>>

\* ------------------------------------------------------------------- Next
Next ==
    \/ StartListeningUnsupported
    \/ StartListening
    \/ \E s \in SessionIds, m \in HostErrorMessages : GetUserMediaRejects(s, m)
    \/ \E s \in SessionIds : GetUserMediaResolves(s)
    \/ \E s \in SessionIds, at \in {"constructor", "start"}, m \in HostErrorMessages :
          RecorderSetupThrows(s, at, m)
    \/ \E s \in SessionIds : IntervalTick(s)
    \/ \E s \in SessionIds : CaptureTimeout(s)
    \/ \E s \in SessionIds : HostStopsRecorder(s)
    \/ \E s \in SessionIds : OnStop(s)
    \/ \E s \in SessionIds : ReaderLoadEnd(s)
    \/ \E s \in SessionIds, a \in Analyses : AnalyzeResolves(s, a)
    \/ \E s \in SessionIds : AnalyzeRejects(s)
    \/ \E s \in SessionIds, i \in Images : VisualResolves(s, i)
    \/ \E s \in SessionIds : VisualRejects(s)
    \/ Unmount

Spec == Init /\ [][Next]_vars

\* ------------------------------------------------------------ type check
TypeOK ==
    /\ state.isRecording \in BOOLEAN
    /\ state.isAnalyzing \in BOOLEAN
    /\ state.countdown \in 0..DurationSeconds
    /\ state.result \in Analyses \cup {Null}
    /\ state.imageUrl \in Images \cup {Null}
    /\ stream \in 0..MaxSessions
    /\ mediaRecorderRef \in 0..MaxSessions
    /\ Len(sessions) <= MaxSessions

\* ================================================================ claims
\* Steps of the handlers, recognised by what they do to a session.
GetUserMediaRejectsStep(s) ==
    /\ sessions[s].pc = "getUserMedia"
    /\ sessions'[s].pc = "failed"
    /\ sessions'[s].tracks = "none"

AnalyzeRejectsStep(s) ==
    sessions[s].proc = "analyze" /\ sessions'[s].proc = "analyzeFailed"

VisualRejectsStep(s) ==
    sessions[s].proc = "visual" /\ sessions'[s].proc = "visualFailed"

StartListeningStep == invocations' /= invocations

\* A step of the pipeline of session s is still to come.
PipelinePending(s) ==
    \/ sessions[s].recorder = "recording"
    \/ sessions[s].timeout
    \/ sessions[s].proc \in {"analyze", "visual"}

\* C1: isRecording and isAnalyzing are never both true, whatever the order
\* of the external events.
C1_NotRecordingAndAnalyzing ==
    ~(state.isRecording /\ state.isAnalyzing)

\* C2: when generateVisual throws after analyzeAudio succeeded, the session
\* is left with isAnalyzing false, an error, and no retained result.
C2_VisualFailureDiscardsResult ==
    [][\A s \in SessionIds :
          (mounted /\ VisualRejectsStep(s)) =>
              /\ ~state'.isAnalyzing
              /\ state'.error /= Null
              /\ state'.result = Null]_vars

\* C3: in every settled state (neither recording nor analyzing) result and
\* error are not both non-null.
C3_ResultErrorExclusive ==
    (~state.isRecording /\ ~state.isAnalyzing) =>
        ~(state.result /= Null /\ state.error /= Null)

\* C4: when getUserMedia rejects for a startListening invoked from Idle, no
\* state with isRecording true was observable before the error is set.
C4_DeniedNeverRecording ==
    [][\A s \in SessionIds :
          (GetUserMediaRejectsStep(s) /\ sessions[s].origin = "idle") =>
              ~state.isRecording]_vars

\* C5: every acquired stream is released on every path: a stream whose
\* tracks are live belongs to a recorder that is still recording or whose
\* stop event is still to be handled.
C5_StreamsReleased ==
    \A s \in SessionIds :
        sessions[s].tracks = "live" =>
            (sessions[s].recorder = "recording" \/ sessions[s].stopEvent)

\* C6: when analyzeAudio throws, processAudio leaves isAnalyzing false, an
\* error and no image, and generateVisual is not invoked in that session,
\* neither before nor after.
C6_AnalyzeFailureSettlesWithoutVisual ==
    [][\A s \in SessionIds :
          /\ (mounted /\ AnalyzeRejectsStep(s)) =>
                /\ ~state'.isAnalyzing
                /\ state'.error /= Null
                /\ state'.imageUrl = Null
          /\ (AnalyzeRejectsStep(s) \/ sessions[s].proc = "analyzeFailed") =>
                /\ sessions'[s].proc = "analyzeFailed"
                /\ sessions'[s].visualCalls = 0]_vars

C6_Witness ==
    /\ mounted
    /\ ~state.isAnalyzing /\ ~state.isRecording
    /\ state.error = ProcessMessage
    /\ \E s \in SessionIds :
          sessions[s].proc = "analyzeFailed" /\ sessions[s].analyzeCalls = 1

\* The state every retry is meant to produce.
FreshRecordingState ==
    [isRecording |-> TRUE, isAnalyzing |-> FALSE, error |-> Null,
     result |-> Null, imageUrl |-> Null, countdown |-> DurationSeconds]

\* C7 as stated: invoking startListening from any Settled state produces
\* the fresh Recording state, whatever the settled content.
C7_RetryFromSettledIsFresh ==
    [][(StartListeningStep /\ mounted /\ IsSettled(state)) =>
          state' = FreshRecordingState]_vars

\* C7 as amended: on a host that exposes mediaDevices.getUserMedia,
\* invoking startListening from any Settled state produces the fresh
\* Recording state, whatever the settled content.
C7_RetryFromSettledIsFreshWhenSupported ==
    [][(StartListeningStep /\ mounted /\ mediaSupported /\ IsSettled(state)) =>
          state' = FreshRecordingState]_vars

C7_Witness ==
    /\ mediaSupported
    /\ state = FreshRecordingState
    /\ Len(sessions) >= 2
    /\ sessions[Len(sessions)].pc = "getUserMedia"
    /\ sessions[Len(sessions)].origin = "settled"

\* C8: the countdown interval and the capture timeout are both canceled
\* when the component unmounts.
C8_TimersCanceledOnUnmount ==
    ~mounted => \A s \in SessionIds : ~sessions[s].timer /\ ~sessions[s].timeout

\* C9: startListening can only be invoked when no earlier session still has
\* a recording recorder, a pending capture timeout or a pending model call.
C9_OnePipelineInFlight ==
    CanInvokeStartListening => \A s \in SessionIds : ~PipelinePending(s)

\* C10: generateVisual is invoked only after analyzeAudio of the same
\* session has returned, with the visualPrompt of the returned analysis,
\* and never while analyzeAudio is pending.
C10_VisualAfterAnalysis ==
    \A s \in SessionIds :
        /\ sessions[s].visualCalls > 0 =>
              /\ sessions[s].analyzeCalls > 0
              /\ sessions[s].proc \in {"visual", "done", "visualFailed"}
        /\ sessions[s].proc = "visual" =>
              /\ sessions[s].analysis \in Analyses
              /\ sessions[s].visualArg = visualPrompt(sessions[s].analysis)
              /\ sessions[s].visualCalls = 1
        /\ sessions[s].proc \in {"none", "analyze", "analyzeFailed"} =>
              /\ sessions[s].visualArg = Null
              /\ sessions[s].visualCalls = 0

C10_Witness ==
    \E s \in SessionIds :
        /\ sessions[s].proc = "visual"
        /\ sessions[s].analysis = "A2"
        /\ sessions[s].visualArg = "P2"

\* A model call (analyzeAudio or generateVisual) is started for session s.
ModelCallStep(s) ==
    \/ sessions'[s].analyzeCalls > sessions[s].analyzeCalls
    \/ sessions'[s].visualCalls > sessions[s].visualCalls

ProcessFailed(s) == sessions[s].proc \in {"analyzeFailed", "visualFailed"}

\* C11: per session analyzeAudio is called at most once and generateVisual
\* at most once, and after a failed call no model call is started except by
\* a session the user invoked afterwards.
C11_OnePayloadPerSession ==
    [][\A s \in SessionIds :
          /\ sessions'[s].analyzeCalls <= 1
          /\ sessions'[s].visualCalls <= 1
          /\ ModelCallStep(s) =>
                \A t \in SessionIds : ProcessFailed(t) => t < s]_vars

C11_Witness ==
    \E s, t \in SessionIds :
        /\ s < t
        /\ sessions[s].proc = "visualFailed"
        /\ sessions[s].analyzeCalls = 1 /\ sessions[s].visualCalls = 1
        /\ sessions[t].proc = "analyze" /\ sessions[t].analyzeCalls = 1

\* The capture timeout of some session fires.
CaptureTimeoutStep ==
    \E s \in SessionIds : sessions[s].timeout /\ ~sessions'[s].timeout

\* C12: isAnalyzing becomes true only from Recording and only when the
\* capture timeout fires, and no user action ends Recording.
C12_AnalyzingOnlyByTimeoutFromRecording ==
    [][/\ (~state.isAnalyzing /\ state'.isAnalyzing) =>
              (state.isRecording /\ CaptureTimeoutStep)
       /\ (StartListeningStep /\ state.isRecording) => state'.isRecording]_vars

\* Some interval is cleared.
IntervalClearedStep ==
    \E s \in SessionIds : sessions[s].timer /\ ~sessions'[s].timer

\* C13: the countdown stays within 0..RECORDING_DURATION/1000, an invocation
\* of startListening sets it to the full duration, every other change is
\* one interval tick (minus 1 above 1, to 0 at 1 or below), and the tick at
\* 1 or below is the one that stops the interval.
C13_CountdownTicks ==
    [][/\ state'.countdown \in 0..DurationSeconds
       /\ (StartListeningStep /\ mounted /\ mediaSupported) =>
              state'.countdown = DurationSeconds
       /\ ~StartListeningStep =>
              /\ state'.countdown <= state.countdown
              /\ state'.countdown /= state.countdown =>
                    state'.countdown =
                        IF state.countdown <= 1 THEN 0 ELSE state.countdown - 1
              /\ (state.countdown = 1 /\ state'.countdown = 0) =>
                    IntervalClearedStep
       /\ (mounted /\ IntervalClearedStep) =>
              (state.countdown <= 1 /\ state'.countdown = 0)]_vars

C13_Witness ==
    /\ mounted
    /\ state.countdown = 0
    /\ state.isRecording
    /\ \E s \in SessionIds :
          sessions[s].pc = "running" /\ ~sessions[s].timer /\ sessions[s].timeout

\* The classes of section 3, with "settled" as the claim words it.
ClassesOf(st) ==
    (IF st.isRecording THEN {"recording"} ELSE {})
    \cup (IF st.isAnalyzing THEN {"analyzing"} ELSE {})
    \cup (IF st.error /= Null \/ (st.result /= Null /\ st.imageUrl /= Null)
          THEN {"settled"} ELSE {})

\* C14: every reachable state is in exactly one of the classes recording,
\* analyzing, settled and idle (idle being none of the other three).
C14_ExactlyOneClass ==
    Cardinality(ClassesOf(state)) <= 1

\* C15: result is non-null only if imageUrl is non-null too.
C15_NoPartialSuccess ==
    state.result /= Null => state.imageUrl /= Null

\* C16: whichever step failed, the stored error is the one generic message
\* and carries no detail of the original error.
C16_SingleGenericMessage ==
    state.error \in {Null, ProcessMessage}

\* ====================================================== geminiService.ts
\* The response decoding of src/services/geminiService.ts.  A string is a
\* sequence of tokens; a token stands for a run of characters that the
\* regular expressions of extractField treat as a unit.

\* ---------------------------------------------------------------- bounds
\* Number of lines on which a response text departs from the requested
\* `Label: value` form.
MaxDeviations == 2

\* Length of the grounding chunk lists.
MaxChunks == 3

\* Number of content parts of an image response.
MaxParts == 3

\* ----------------------------------------------------------------- tokens
Tok(k, v) == [k |-> k, v |-> v]

Word(w) == Tok("word", w)          \* text without whitespace, brackets, labels
Label(field) == Tok("label", field)           \* "Artist:"
LabelLower(field) == Tok("labelLower", field) \* "artist:"
Space == Tok("space", " ")
Newline == Tok("newline", "\n")
LeftBracket == Tok("[", "[")
RightBracket == Tok("]", "]")

\* The nine labels, in the order of MUSIC_ANALYSIS_PROMPT_TEMPLATE.
Fields ==
    <<"Artist", "Title", "Lyrics", "Mood", "Genre", "ReleaseDate",
      "SpotifyUrl", "YoutubeUrl", "VisualPrompt">>

FieldSet == {Fields[i] : i \in 1..Len(Fields)}

\* \s of the regular expression.
IsWhitespace(t) == t.k \in {"space", "newline"}

\* `${field}:` under the flag i, at token t.
MatchesLabel(t, field) == t.k \in {"label", "labelLower"} /\ t.v = field

\* String.prototype.trim.
Trim(str) ==
    LET keep == {i \in 1..Len(str) : ~IsWhitespace(str[i])}
    IN  IF keep = {} THEN <<>>
        ELSE SubSeq(str, CHOOSE i \in keep : \A j \in keep : i <= j,
                         CHOOSE i \in keep : \A j \in keep : i >= j)

\* replace(/\[|\]/g, '').
RemoveBrackets(str) ==
    SelectSeq(str, LAMBDA t : t.k \notin {"[", "]"})

\* extractField of extractFieldsFromResponse:
\*   text.match(new RegExp(`${field}:\\s*(.*)`, 'i')), then
\*   match[1].trim().replace(/\[|\]/g, '') or "".
\* The match starts at the leftmost occurrence of the label, \s* takes all
\* the whitespace that follows (newlines included), and (.*) runs to the
\* end of that line.
extractField(text, field) ==
    LET hits == {i \in 1..Len(text) : MatchesLabel(text[i], field)}
    IN  IF hits = {} THEN <<>>
        ELSE
          LET at == CHOOSE i \in hits : \A j \in hits : i <= j
              solid == {j \in (at + 1)..Len(text) : ~IsWhitespace(text[j])}
              from == IF solid = {} THEN Len(text) + 1
                      ELSE CHOOSE j \in solid : \A k \in solid : j <= k
              breaks == {j \in from..Len(text) : text[j].k = "newline"}
              to == IF breaks = {} THEN Len(text) + 1
                    ELSE CHOOSE j \in breaks : \A k \in breaks : j <= k
          IN  RemoveBrackets(Trim(SubSeq(text, from, to - 1)))

\* extractFieldsFromResponse: the nine extractions, by label.
extractFieldsFromResponse(text) ==
    [field \in FieldSet |-> extractField(text, field)]

\* a || b on strings.
OrElse(a, b) == IF a /= <<>> THEN a ELSE b

\* response.text || "".
TextOrEmpty(response) ==
    IF response.textPresent THEN response.text ELSE <<>>

\* Sources, keeping one entry per uri.
Sources_Deduplicated(grounding) ==
    IF ~grounding.present THEN <<>>
    ELSE LET web == SelectSeq(grounding.chunks, LAMBDA c : c.web)
             first == {i \in 1..Len(web) :
                          \A j \in 1..(i - 1) : web[j].uri /= web[i].uri}
             kept == [n \in 1..Cardinality(first) |->
                         web[CHOOSE i \in first :
                                Cardinality({j \in first : j <= i}) = n]]
         IN  [i \in 1..Len(kept) |->
                 [title |-> IF kept[i].title \notin {Null, ""}
                            THEN kept[i].title ELSE "Search Result",
                  uri   |-> IF kept[i].uri /= Null THEN kept[i].uri ELSE ""]]

\* The grounding chunks of a response become the sources of the result:
\*   groundingChunks?.filter(chunk => chunk.web)?.map(...) || [].
\* A title or uri the chunk does not have is Null.
Sources(grounding) ==
    IF ~grounding.present THEN <<>>
    ELSE LET kept == SelectSeq(grounding.chunks, LAMBDA c : c.web)
         IN  [i \in 1..Len(kept) |->
                 [title |-> IF kept[i].title \notin {Null, ""}
                            THEN kept[i].title ELSE "Search Result",
                  uri   |-> IF kept[i].uri /= Null THEN kept[i].uri ELSE ""]]

\* The value analyzeAudio returns for a response.
AnalyzeAudioResult(response) ==
    LET fields == extractFieldsFromResponse(TextOrEmpty(response)) IN
    [artist       |-> OrElse(fields["Artist"], <<Word("Unknown Artist")>>),
     title        |-> OrElse(fields["Title"], <<Word("Unknown Track")>>),
     lyrics       |-> OrElse(fields["Lyrics"],
                             <<Word("Atmospheric resonance detected.")>>),
     mood         |-> OrElse(fields["Mood"], <<Word("Atmospheric")>>),
     genre        |-> OrElse(fields["Genre"], <<Word("Unknown Genre")>>),
     visualPrompt |-> OrElse(fields["VisualPrompt"],
                             <<Word("Cinematic album art for a ")>>
                             \o fields["Genre"] \o <<Word(" track by ")>>
                             \o fields["Artist"]),
     releaseDate  |-> fields["ReleaseDate"],
     spotifyUrl   |-> fields["SpotifyUrl"],
     youtubeUrl   |-> fields["YoutubeUrl"],
     sources      |-> Sources(response.grounding)]

\* The value searchByLyrics returns for a response.
SearchByLyricsResult(lyricsInput, response) ==
    LET fields == extractFieldsFromResponse(TextOrEmpty(response)) IN
    [artist       |-> OrElse(fields["Artist"], <<Word("Unknown Artist")>>),
     title        |-> OrElse(fields["Title"], <<Word("Unknown Track")>>),
     lyrics       |-> OrElse(fields["Lyrics"], lyricsInput),
     mood         |-> OrElse(fields["Mood"], <<Word("Evocative")>>),
     genre        |-> OrElse(fields["Genre"], <<Word("Unknown Genre")>>),
     visualPrompt |-> OrElse(fields["VisualPrompt"],
                             <<Word("Cinematic interpretation of ")>>
                             \o fields["Title"]),
     releaseDate  |-> fields["ReleaseDate"],
     spotifyUrl   |-> fields["SpotifyUrl"],
     youtubeUrl   |-> fields["YoutubeUrl"],
     sources      |-> Sources(response.grounding)]

\* ------------------------------------------------ the replies of the model
\* The forms a field's line takes in a reply.  "plain" is `Label: value`;
\* the others are the departures a free-text reply shows.
Shapes ==
    {"absent", "plain", "bracketed", "lowercase", "padded", "innerPadded",
     "empty", "mentions", "duplicate"}

FieldIndex(field) == CHOOSE i \in 1..Len(Fields) : Fields[i] = field

NextField(field) == Fields[(FieldIndex(field) % Len(Fields)) + 1]

\* The line of a field in a given shape (without its line break).
Line(field, shape) ==
    CASE shape = "absent"      -> <<>>
      [] shape = "plain"       -> <<Label(field), Space, Word(field)>>
      [] shape = "bracketed"   -> <<Label(field), Space,
                                    LeftBracket, Word(field), RightBracket>>
      [] shape = "lowercase"   -> <<LabelLower(field), Space, Word(field)>>
      [] shape = "padded"      -> <<Label(field), Space, Space,
                                    Word(field), Space>>
      [] shape = "innerPadded" -> <<Label(field), Space, LeftBracket, Space,
                                    Word(field), Space, RightBracket>>
      [] shape = "empty"       -> <<Label(field)>>
      [] shape = "mentions"    -> <<Label(field), Space, Word(field), Space,
                                    LabelLower(NextField(field)), Space,
                                    Word("aside")>>
      [] shape = "duplicate"   -> <<Label(field), Space, Word(field), Newline,
                                    Label(field), Space, Word("other")>>

RECURSIVE TextFrom(_, _)
\* The lines of the fields from position i on, joined by line breaks.
TextFrom(shapes, i) ==
    IF i > Len(Fields) THEN <<>>
    ELSE LET line == Line(Fields[i], shapes[Fields[i]])
             rest == TextFrom(shapes, i + 1)
         IN  IF line = <<>> THEN rest
             ELSE IF rest = <<>> THEN line
             ELSE line \o <<Newline>> \o rest

Text(shapes) == TextFrom(shapes, 1)

TemplateShapes == [field \in FieldSet |-> "plain"]

NoShapes == [field \in FieldSet |-> "absent"]

\* The sets of lines on which a reply departs from the template.
Deviations == {d \in SUBSET FieldSet : Cardinality(d) <= MaxDeviations}

\* The template with the lines of `shape` written as `shape` says.
WithDeviations(shape) ==
    [field \in FieldSet |->
        IF field \in DOMAIN shape THEN shape[field] ELSE "plain"]

\* groundingChunks entries: with or without `web`, title, uri.
ChunkKinds ==
    {[web |-> TRUE, title |-> "T1", uri |-> "U1"],
     [web |-> TRUE, title |-> Null, uri |-> "U1"],
     [web |-> TRUE, title |-> "T2", uri |-> Null],
     [web |-> FALSE, title |-> Null, uri |-> Null]}

NoGrounding == [present |-> FALSE, chunks |-> <<>>]

OneSourceGrounding ==
    [present |-> TRUE,
     chunks |-> <<[web |-> TRUE, title |-> "T1", uri |-> "U1"]>>]

\* What generateContent resolves with: response.text (possibly undefined)
\* and the grounding metadata of the first candidate.  `shapes` records
\* how the text was written.
Response(shapes, grounding) ==
    [textPresent |-> TRUE, text |-> Text(shapes), shapes |-> shapes,
     grounding |-> grounding]

UndefinedTextResponse ==
    [textPresent |-> FALSE, text |-> <<>>, shapes |-> NoShapes,
     grounding |-> OneSourceGrounding]

LyricsInputs == {<<>>, <<Word("typed lyrics")>>}

\* The exported functions with their arguments.
Invocations ==
    {[fn |-> "analyzeAudio", lyricsInput |-> <<>>]}
    \cup {[fn |-> "searchByLyrics", lyricsInput |-> lyricsInput] :
            lyricsInput \in LyricsInputs}

NoFields == [field \in FieldSet |-> <<>>]

NoResult ==
    [artist |-> <<>>, title |-> <<>>, lyrics |-> <<>>, mood |-> <<>>,
     genre |-> <<>>, visualPrompt |-> <<>>, releaseDate |-> <<>>,
     spotifyUrl |-> <<>>, youtubeUrl |-> <<>>, sources |-> <<>>]

\* A call of analyzeAudio or searchByLyrics awaiting generateContent.
PendingCall(invocation, response) ==
    [fn |-> invocation.fn, lyricsInput |-> invocation.lyricsInput,
     response |-> response, status |-> "pending",
     fields |-> NoFields, result |-> NoResult]

\* The parts of an image response: text, or inline data.
PartKinds ==
    {[inlineData |-> Null], [inlineData |-> "D1"], [inlineData |-> "D2"]}

\* response.candidates?.[0]?.content?.parts || [].
PartsOrEmpty(response) ==
    IF response.candidates /\ response.content THEN response.parts ELSE <<>>

RECURSIVE ScanParts_WithoutBreak(_, _, _)
\* ScanParts, going on after a part with inline data.
ScanParts_WithoutBreak(parts, i, imageUrl) ==
    IF i > Len(parts) THEN imageUrl
    ELSE IF parts[i].inlineData /= Null
         THEN ScanParts_WithoutBreak(parts, i + 1,
                  <<"data:image/png;base64,", parts[i].inlineData>>)
         ELSE ScanParts_WithoutBreak(parts, i + 1, imageUrl)

RECURSIVE ScanParts(_, _, _)
\* The loop of generateVisual over the parts from position i on:
\*   for (const part of parts) if (part.inlineData) { imageUrl = ...; break; }
ScanParts(parts, i, imageUrl) ==
    IF i > Len(parts) THEN imageUrl
    ELSE IF parts[i].inlineData /= Null
         THEN <<"data:image/png;base64,", parts[i].inlineData>>
         ELSE ScanParts(parts, i + 1, imageUrl)

\* The imageUrl of generateVisual, had the loop no break.
ImageUrlOf_WithoutBreak(response) ==
    ScanParts_WithoutBreak(PartsOrEmpty(response), 1, <<>>)

\* The imageUrl of generateVisual after the loop: lines 150-157.
ImageUrlOf(response) ==
    ScanParts(PartsOrEmpty(response), 1, <<>>)

NoImageMessage == "Could not find image in model response."

\* A call of generateVisual awaiting generateContent.
PendingVisualCall(response) ==
    [fn |-> "generateVisual", response |-> response, status |-> "pending",
     imageUrl |-> <<>>, error |-> Null]

\* One call of the service, with the reply generateContent will give: a
\* text that departs from the template, an empty or undefined text, or
\* the template text with some grounding metadata.
ServiceInit ==
    /\ state = InitialState
    /\ stream = 0
    /\ mediaRecorderRef = 0
    /\ chunksRef = <<>>
    /\ sessions = <<>>
    /\ mounted = TRUE
    /\ mediaSupported = TRUE
    /\ invocations = 0
    /\ \/ \E invocation \in Invocations :
            \/ \E deviating \in Deviations :
                 \E shape \in [deviating -> Shapes \ {"plain"}] :
                    call = PendingCall(invocation,
                               Response(WithDeviations(shape), OneSourceGrounding))
            \/ call = PendingCall(invocation,
                                  Response(NoShapes, OneSourceGrounding))
            \/ call = PendingCall(invocation, UndefinedTextResponse)
            \/ call = PendingCall(invocation,
                                  Response(TemplateShapes, NoGrounding))
            \/ \E n \in 0..MaxChunks :
                 \E chunks \in [1..n -> ChunkKinds] :
                    call = PendingCall(invocation,
                               Response(TemplateShapes,
                                        [present |-> TRUE, chunks |-> chunks]))
       \/ \E candidates, content \in BOOLEAN :
            \E n \in 0..MaxParts :
               \E parts \in [1..n -> PartKinds] :
                  call = PendingVisualCall([candidates |-> candidates,
                                            content |-> content,
                                            parts |-> parts])
    /\ visualizer = NoVisualizer

\* analyzeAudio after generateContent resolved: lines 72-89.
AnalyzeAudioReturns ==
    /\ call.fn = "analyzeAudio"
    /\ call.status = "pending"
    /\ call' = [call EXCEPT
                  !.status = "returned",
                  !.fields = extractFieldsFromResponse(TextOrEmpty(call.response)),
                  !.result = AnalyzeAudioResult(call.response)]
    /\ UNCHANGED <<state, stream, mediaRecorderRef, chunksRef, sessions,
                   mounted, mediaSupported, invocations,
                   visualizer>>

\* searchByLyrics after generateContent resolved: lines 109-126.
SearchByLyricsReturns ==
    /\ call.fn = "searchByLyrics"
    /\ call.status = "pending"
    /\ call' = [call EXCEPT
                  !.status = "returned",
                  !.fields = extractFieldsFromResponse(TextOrEmpty(call.response)),
                  !.result = SearchByLyricsResult(call.lyricsInput,
                                                  call.response)]
    /\ UNCHANGED <<state, stream, mediaRecorderRef, chunksRef, sessions,
                   mounted, mediaSupported, invocations,
                   visualizer>>

\* generateContent rejected: the catch block logs and rethrows.
GenerateContentRejects ==
    /\ call.status = "pending"
    /\ call' = [call EXCEPT !.status = "threw"]
    /\ UNCHANGED <<state, stream, mediaRecorderRef, chunksRef, sessions,
                   mounted, mediaSupported, invocations,
                   visualizer>>

\* generateVisual after generateContent resolved, a part with inline data
\* found: lines 150-160.
GenerateVisualReturns ==
    /\ call.fn = "generateVisual"
    /\ call.status = "pending"
    /\ ImageUrlOf(call.response) /= <<>>
    /\ call' = [call EXCEPT
                  !.status = "returned",
                  !.imageUrl = ImageUrlOf(call.response)]
    /\ UNCHANGED <<state, stream, mediaRecorderRef, chunksRef, sessions,
                   mounted, mediaSupported, invocations,
                   visualizer>>

\* generateVisual after generateContent resolved, imageUrl still "":
\* line 159 throws, the catch block logs and rethrows.
GenerateVisualThrows ==
    /\ call.fn = "generateVisual"
    /\ call.status = "pending"
    /\ ImageUrlOf(call.response) = <<>>
    /\ call' = [call EXCEPT !.status = "threw", !.error = NoImageMessage]
    /\ UNCHANGED <<state, stream, mediaRecorderRef, chunksRef, sessions,
                   mounted, mediaSupported, invocations,
                   visualizer>>

ServiceNext ==
    \/ AnalyzeAudioReturns
    \/ SearchByLyricsReturns
    \/ GenerateVisualReturns
    \/ GenerateVisualThrows
    \/ GenerateContentRejects

ServiceSpec == ServiceInit /\ [][ServiceNext]_vars

DecodingCall == call.fn \in {"analyzeAudio", "searchByLyrics"}

ServiceTypeOK ==
    /\ call.fn \in {"analyzeAudio", "searchByLyrics", "generateVisual"}
    /\ call.status \in {"pending", "returned", "threw"}
    /\ DecodingCall =>
         /\ call.response.textPresent \in BOOLEAN
         /\ call.response.grounding.present \in BOOLEAN
         /\ Len(call.response.grounding.chunks) <= MaxChunks
         /\ \A field \in FieldSet : call.response.shapes[field] \in Shapes
         /\ call.status /= "returned" =>
               call.fields = NoFields /\ call.result = NoResult
    /\ ~DecodingCall =>
         /\ Len(call.response.parts) <= MaxParts
         /\ call.status /= "returned" => call.imageUrl = <<>>

\* ------------------------------------------------- claims on the service
Returned == DecodingCall /\ call.status = "returned"

\* C17: when the reply of the model has empty or absent response text,
\* analyzeAudio fails with an error instead of returning a result.
C17_EmptyTextThrows ==
    (/\ call.fn = "analyzeAudio"
     /\ call.status /= "pending"
     /\ TextOrEmpty(call.response) = <<>>) => call.status = "threw"

\* The value a line of the given shape states for its field: what follows
\* the label on the first line that begins with it, brackets stripped and
\* whitespace trimmed.
IntendedValue(field, shape) ==
    CASE shape \in {"absent", "empty"} -> <<>>
      [] shape = "mentions" -> <<Word(field), Space,
                                 LabelLower(NextField(field)), Space,
                                 Word("aside")>>
      [] OTHER -> <<Word(field)>>

AllNineLabelled(response) ==
    /\ response.textPresent
    /\ \A field \in FieldSet : response.shapes[field] /= "absent"

\* C18: for a response text that contains all nine labelled fields, the
\* extraction returns for each label exactly the value on the first line
\* whose label matches, with brackets stripped and whitespace trimmed, and
\* nothing of other lines or other fields.
C18_ExtractsEachFieldExactly ==
    (Returned /\ AllNineLabelled(call.response)) =>
        \A field \in FieldSet :
            call.fields[field] = IntendedValue(field, call.response.shapes[field])

RequiredFields ==
    {"artist", "title", "mood", "genre", "lyrics", "visualPrompt"}

\* C19: in analyzeAudio and in searchByLyrics, a labelled field that is
\* missing from the response text decodes to the empty string, and every
\* required field of the returned result is non-empty.
C19_MissingFieldsFallBack ==
    Returned =>
        /\ \A field \in FieldSet :
              call.response.shapes[field] = "absent" => call.fields[field] = <<>>
        /\ \A required \in RequiredFields : call.result[required] /= <<>>

\* The positions of the chunks that have a web source.
WebPositions(grounding) ==
    {i \in 1..Len(grounding.chunks) : grounding.chunks[i].web}

\* C20: the sources of the result are exactly the chunks with a web
\* source, in the order of the chunk list and without deduplication; a
\* kept chunk without title gets the placeholder title; an absent
\* grounding list gives no sources.
C20_SourcesAreWebChunksInOrder ==
    Returned =>
        LET grounding == call.response.grounding
            sources == call.result.sources
            web == WebPositions(grounding)
        IN  /\ ~grounding.present => sources = <<>>
            /\ grounding.present =>
                 /\ Len(sources) = Cardinality(web)
                 /\ \A i \in web :
                      LET at == Cardinality({j \in web : j <= i})
                          chunk == grounding.chunks[i]
                      IN  /\ sources[at].uri =
                                 (IF chunk.uri = Null THEN "" ELSE chunk.uri)
                          /\ sources[at].title =
                                 (IF chunk.title = Null THEN "Search Result"
                                  ELSE chunk.title)

C20_Witness ==
    /\ Returned
    /\ call.response.grounding.present
    /\ Len(call.response.grounding.chunks) = 3
    /\ call.response.grounding.chunks[1].web
    /\ call.response.grounding.chunks[1].title = Null
    /\ ~call.response.grounding.chunks[2].web
    /\ call.response.grounding.chunks[3] = call.response.grounding.chunks[1]
    /\ Len(call.result.sources) = 2
    /\ call.result.sources[1] = call.result.sources[2]

\* The positions of the parts that carry inline data.
InlinePositions(response) ==
    {i \in 1..Len(PartsOrEmpty(response)) :
        PartsOrEmpty(response)[i].inlineData /= Null}

\* C21: generateVisual returns the image reference built from the first
\* part, in response order, that carries inline data, whatever follows it;
\* when no part carries inline data, or there are no candidates or parts,
\* it fails with an error and returns no image reference.
C21_FirstInlinePartOrError ==
    (call.fn = "generateVisual" /\ call.status /= "pending") =>
        LET inline == InlinePositions(call.response) IN
        /\ call.status = "returned" =>
             /\ inline /= {}
             /\ \E i \in inline :
                  /\ \A j \in inline : i <= j
                  /\ call.imageUrl =
                        <<"data:image/png;base64,",
                          PartsOrEmpty(call.response)[i].inlineData>>
        /\ inline = {} =>
             /\ call.status = "threw"
             /\ call.imageUrl = <<>>

C21_Witness ==
    /\ call.fn = "generateVisual"
    /\ call.status = "returned"
    /\ Len(PartsOrEmpty(call.response)) = 3
    /\ PartsOrEmpty(call.response)[1].inlineData = Null
    /\ PartsOrEmpty(call.response)[2].inlineData = "D1"
    /\ PartsOrEmpty(call.response)[3].inlineData = "D2"
    /\ call.imageUrl = <<"data:image/png;base64,", "D1">>

\* ======================================== startListening: recorder format
\* The choice of the recording format in startListening (App.tsx:48-57), as
\* a function of what MediaRecorder.isTypeSupported answers on the host.

\* The formats a host may report as supported.
HostTypes ==
    {"audio/mp4", "audio/webm", "audio/ogg", "audio/wav", "audio/mpeg",
     "audio/aac"}

\* Variant of SelectMimeType that tries audio/webm before audio/mp4.
SelectMimeType_WebmFirst(supported) ==
    LET first == "audio/webm"
        second == IF first \notin supported THEN "audio/mp4" ELSE first
    IN  IF second \notin supported THEN "" ELSE second

\* let mimeType = 'audio/mp4';
\* if (!MediaRecorder.isTypeSupported(mimeType)) mimeType = 'audio/webm';
\* if (!MediaRecorder.isTypeSupported(mimeType)) mimeType = '';
SelectMimeType(supported) ==
    LET first == "audio/mp4"
        second == IF first \notin supported THEN "audio/webm" ELSE first
    IN  IF second \notin supported THEN "" ELSE second

\* The second argument of new MediaRecorder: mimeType ? { mimeType } : undefined.
RecorderOptions(mimeType) ==
    IF mimeType /= "" THEN [mimeType |-> mimeType] ELSE [mimeType |-> Null]

\* startListening of the first session awaiting getUserMedia, on a host
\* with some set of supported formats.
RecorderInit ==
    /\ state = RecordingState(InitialState)
    /\ stream = 0
    /\ mediaRecorderRef = 0
    /\ chunksRef = <<>>
    /\ sessions = <<NewSession(Origin(InitialState))>>
    /\ mounted = TRUE
    /\ mediaSupported = TRUE
    /\ invocations = 1
    /\ \E supported \in SUBSET HostTypes :
          call = [fn |-> "startListening", supported |-> supported,
                  status |-> "pending", options |-> [mimeType |-> Null]]
    /\ visualizer = NoVisualizer

\* getUserMedia resolves: lines 46-97, with the format chosen at lines
\* 48-55 and the recorder constructed with it at line 57.
ConstructRecorder ==
    /\ call.fn = "startListening"
    /\ call.status = "pending"
    /\ sessions[1].pc = "getUserMedia"
    /\ call' = [call EXCEPT
                  !.status = "constructed",
                  !.options = RecorderOptions(SelectMimeType(call.supported))]
    /\ stream' = SetStream(1)
    /\ mediaRecorderRef' = 1
    /\ chunksRef' = <<>>
    /\ sessions' = [sessions EXCEPT ![1].pc = "running",
                                    ![1].origin = "past",
                                    ![1].tracks = "live",
                                    ![1].recorder = "recording",
                                    ![1].timer = TRUE,
                                    ![1].timeout = TRUE]
    /\ UNCHANGED <<state, mounted, mediaSupported, invocations,
                   visualizer>>

RecorderNext == ConstructRecorder

RecorderSpec == RecorderInit /\ [][RecorderNext]_vars

\* The formats startListening asks for, in order of preference.
PreferenceList == <<"audio/mp4", "audio/webm">>

\* C22: whatever formats the host reports as supported, the recorder is
\* configured with the first format of the preference list that is
\* supported, and with no format (the host default) when none of them is.
C22_FirstSupportedFormat ==
    call.status = "constructed" =>
        LET listed == {i \in 1..Len(PreferenceList) :
                          PreferenceList[i] \in call.supported}
        IN  IF listed = {}
            THEN call.options.mimeType = Null
            ELSE \E i \in listed :
                    /\ \A j \in listed : i <= j
                    /\ call.options.mimeType = PreferenceList[i]

C22_Witness ==
    /\ call.status = "constructed"
    /\ call.supported = {"audio/mp4", "audio/webm", "audio/ogg"}
    /\ call.options.mimeType = "audio/mp4"

\* ================================================= progress of a session
\* What the host and the model do on their own: getUserMedia settles, the
\* interval and the timeout fire, the queued stop event and the FileReader
\* load are delivered, and each call of analyzeAudio and generateVisual
\* resolves or rejects.  Clicks, the unmount and a host that ends the
\* tracks are not forced.
HostStep ==
    \/ \E s \in SessionIds, m \in HostErrorMessages : GetUserMediaRejects(s, m)
    \/ \E s \in SessionIds : GetUserMediaResolves(s)
    \/ \E s \in SessionIds, at \in {"constructor", "start"}, m \in HostErrorMessages :
          RecorderSetupThrows(s, at, m)

TimerStep ==
    \/ \E s \in SessionIds : IntervalTick(s)
    \/ \E s \in SessionIds : CaptureTimeout(s)

CallbackStep ==
    \/ \E s \in SessionIds : OnStop(s)
    \/ \E s \in SessionIds : ReaderLoadEnd(s)

ModelStep ==
    \/ \E s \in SessionIds, a \in Analyses : AnalyzeResolves(s, a)
    \/ \E s \in SessionIds : AnalyzeRejects(s)
    \/ \E s \in SessionIds, i \in Images : VisualResolves(s, i)
    \/ \E s \in SessionIds : VisualRejects(s)

FairSpec ==
    /\ Init
    /\ [][Next]_vars
    /\ WF_vars(HostStep)
    /\ WF_vars(TimerStep)
    /\ WF_vars(CallbackStep)
    /\ WF_vars(ModelStep)

SettledWithOutcome ==
    /\ ~state.isRecording
    /\ ~state.isAnalyzing
    /\ \/ state.error /= Null
       \/ state.result /= Null /\ state.imageUrl /= Null

\* C23: with the timers, the recorder and reader callbacks and the model
\* calls all making progress, a session that enters Recording eventually
\* reaches a settled state: isRecording and isAnalyzing false, and either
\* an error or both result and imageUrl; it does not stay in Analyzing
\* forever.  (An unmounted component has no state left to settle.)
C23_EventuallySettles ==
    (mounted /\ state.isRecording) ~> (~mounted \/ SettledWithOutcome)

\* The capture timeout of session s fires in this step.
CaptureTimeoutOf(s) == sessions[s].timeout /\ ~sessions'[s].timeout

\* A step of session s that will end in processAudio clearing isAnalyzing
\* is still to come: the stop event, the FileReader load, analyzeAudio or
\* generateVisual.
ClearingStepPending(s) ==
    \/ sessions[s].stopEvent
    \/ sessions[s].reader
    \/ sessions[s].proc \in {"analyze", "visual"}

\* C24: whenever isAnalyzing is true a pipeline step that will clear it is
\* still pending, and the capture timeout of a session sets isAnalyzing
\* only while such a step of that session is pending: never for a session
\* whose recorder had stopped and whose processAudio has finished.
C24_AnalyzingHasPendingStep ==
    [][/\ (mounted' /\ state'.isAnalyzing) =>
              (\E s \in 1..Len(sessions') : ClearingStepPending(s)')
       /\ \A s \in SessionIds :
              (mounted /\ CaptureTimeoutOf(s)) => ClearingStepPending(s)']_vars

\* C25: the capture timeout of a session stops only the recorder that
\* session created, and does not take a later session out of Recording
\* while that session's own timeout is still to fire.
C25_TimeoutStopsOwnRecorder ==
    [][\A s \in SessionIds :
          CaptureTimeoutOf(s) =>
             \A t \in SessionIds :
                t /= s =>
                   /\ sessions'[t].recorder = sessions[t].recorder
                   /\ (/\ t > s
                       /\ sessions[t].pc = "running"
                       /\ sessions[t].timeout
                       /\ state.isRecording) => state'.isRecording]_vars

\* ============================================================ Visualizer
\* The effect of src/components/Visualizer.tsx and its cleanup.  React
\* runs the effect after the first render and after each render that
\* changed isActive or stream, the cleanup of the previous run first, and
\* runs the last cleanup on unmount.

\* AudioContexts constructed in one behaviour.
MaxContexts == 3

\* Animation frames requested in one behaviour.
MaxFrames == 4

\* The streams passed as prop: null or a MediaStream.
StreamProps == {0, 1, 2}

\* draw(): without 2d context it returns at once; otherwise it requests
\* the next frame and keeps the request id in animationRef.
Draw(v) ==
    IF ~v.context2d THEN v
    ELSE [v EXCEPT !.requested = @ + 1,
                   !.animationRef = v.requested + 1,
                   !.frames = @ \cup {v.requested + 1}]

\* The effect body: lines 15-59.  The canvas is rendered with the
\* component, so canvasRef.current is set when an effect runs.
RunEffect(v) ==
    IF ~v.isActive \/ v.stream = 0
    THEN [v EXCEPT !.effectDue = FALSE, !.cleanup = FALSE]
    ELSE LET audioContext == v.created + 1
             constructed == [v EXCEPT !.created = audioContext,
                                      !.live = @ \cup {audioContext},
                                      !.audioCtxRef = audioContext]
         IN  [Draw(constructed) EXCEPT !.effectDue = FALSE, !.cleanup = TRUE]

\* Variant of RunCleanup that closes the context and leaves the requested
\* frame alone.
RunCleanup_KeepsFrame(v) ==
    [v EXCEPT !.live = IF v.audioCtxRef /= 0 THEN @ \ {v.audioCtxRef} ELSE @]

\* The cleanup: lines 56-59.
RunCleanup(v) ==
    [v EXCEPT !.frames = IF v.animationRef /= 0 THEN @ \ {v.animationRef} ELSE @,
              !.live = IF v.audioCtxRef /= 0 THEN @ \ {v.audioCtxRef} ELSE @]

\* The number of contexts and frames the effect would add stays in bounds.
WithinBounds(v) ==
    (v.isActive /\ v.stream /= 0) =>
        v.created < MaxContexts /\ v.requested < MaxFrames

VisualizerFrame ==
    UNCHANGED <<state, stream, mediaRecorderRef, chunksRef, sessions,
                mounted, mediaSupported, invocations, call>>

VisualizerInit ==
    /\ state = InitialState
    /\ stream = 0
    /\ mediaRecorderRef = 0
    /\ chunksRef = <<>>
    /\ sessions = <<>>
    /\ mounted = TRUE
    /\ mediaSupported = TRUE
    /\ invocations = 0
    /\ call = NoCall
    /\ \E context2d \in BOOLEAN :
          visualizer = [NoVisualizer EXCEPT !.context2d = context2d]

\* The recording view renders <Visualizer stream isActive />: a new
\* instance with fresh refs (lines 10-12) whose effect is to run.
MountVisualizer(isActive, streamProp) ==
    /\ ~visualizer.rendered
    /\ visualizer' = [visualizer EXCEPT !.rendered = TRUE,
                                        !.isActive = isActive,
                                        !.stream = streamProp,
                                        !.effectDue = TRUE,
                                        !.cleanup = FALSE,
                                        !.animationRef = 0,
                                        !.audioCtxRef = 0]
    /\ VisualizerFrame

\* A render with a changed isActive or stream: line 60, the dependencies.
RenderVisualizer(isActive, streamProp) ==
    /\ visualizer.rendered
    /\ ~visualizer.effectDue
    /\ <<isActive, streamProp>> /= <<visualizer.isActive, visualizer.stream>>
    /\ visualizer' = [visualizer EXCEPT !.isActive = isActive,
                                        !.stream = streamProp,
                                        !.effectDue = TRUE]
    /\ VisualizerFrame

\* React flushes the effect: the cleanup of the previous run, if it
\* returned one, and then the effect body with the new props.
FlushEffect ==
    /\ visualizer.rendered
    /\ visualizer.effectDue
    /\ WithinBounds(visualizer)
    /\ visualizer' = RunEffect(IF visualizer.cleanup
                               THEN RunCleanup(visualizer) ELSE visualizer)
    /\ VisualizerFrame

\* The host runs a requested animation frame: draw() of lines 37-52.
AnimationFrame(request) ==
    /\ request \in visualizer.frames
    /\ visualizer.requested < MaxFrames
    /\ visualizer' = Draw([visualizer EXCEPT !.frames = @ \ {request}])
    /\ VisualizerFrame

\* The component unmounts: the cleanup of the last run, if any.
UnmountVisualizer ==
    /\ visualizer.rendered
    /\ ~visualizer.effectDue
    /\ visualizer' = [(IF visualizer.cleanup
                       THEN RunCleanup(visualizer) ELSE visualizer)
                      EXCEPT !.rendered = FALSE, !.cleanup = FALSE]
    /\ VisualizerFrame

VisualizerNext ==
    \/ \E isActive \in BOOLEAN, streamProp \in StreamProps :
          MountVisualizer(isActive, streamProp)
    \/ \E isActive \in BOOLEAN, streamProp \in StreamProps :
          RenderVisualizer(isActive, streamProp)
    \/ FlushEffect
    \/ \E request \in 1..MaxFrames : AnimationFrame(request)
    \/ UnmountVisualizer

VisualizerSpec == VisualizerInit /\ [][VisualizerNext]_vars

VisualizerTypeOK ==
    /\ visualizer.rendered \in BOOLEAN
    /\ visualizer.isActive \in BOOLEAN
    /\ visualizer.stream \in StreamProps
    /\ visualizer.created \in 0..MaxContexts
    /\ visualizer.requested \in 0..MaxFrames
    /\ visualizer.live \subseteq 1..visualizer.created
    /\ visualizer.frames \subseteq 1..visualizer.requested
    /\ visualizer.animationRef \in 0..visualizer.requested
    /\ visualizer.audioCtxRef \in 0..visualizer.created

\* isActive is true and a stream is present.
Active(v) == v.isActive /\ v.stream /= 0

\* C26: the Visualizer holds audio resources only while active.  An
\* AudioContext and a frame loop exist only for props with isActive true
\* and a stream; once the effect has run for props that are inactive or
\* for another stream, and after the unmount, the earlier frame request is
\* canceled and the earlier AudioContext closed; at most one AudioContext
\* and one frame request are live at any time.
C26_ResourcesOnlyWhileActive ==
    /\ Cardinality(visualizer.live) <= 1
    /\ Cardinality(visualizer.frames) <= 1
    /\ ~visualizer.rendered =>
          visualizer.live = {} /\ visualizer.frames = {}
    /\ (visualizer.rendered /\ ~visualizer.effectDue) =>
          /\ visualizer.live /= {} <=> Active(visualizer)
          /\ visualizer.frames /= {} => Active(visualizer)
          /\ visualizer.live \subseteq {visualizer.audioCtxRef}
          /\ visualizer.frames \subseteq {visualizer.animationRef}

C26_Witness ==
    /\ visualizer.rendered
    /\ ~visualizer.effectDue
    /\ visualizer.created = 2
    /\ visualizer.live = {2}
    /\ visualizer.requested >= 3
    /\ Cardinality(visualizer.frames) = 1

====
